---- MODULE Spec2Model ----
(***************************************************************************)
(* Model of src/protocol/recv.rs of richclip: the bulk decoder             *)
(* (receive_data_bulk), the oneshot decoder (receive_data_oneshot) and the *)
(* two length-prefixed readers (read_mime_types, read_content).            *)
(*                                                                         *)
(* A byte is a number in 0..255, a byte buffer is a sequence of bytes.  A  *)
(* Rust String is represented by its UTF-8 bytes (String::from_utf8 keeps  *)
(* the bytes of the Vec it is given and only validates them).  The reader  *)
(* is any `impl Read`: the bytes it delivers (`stream`), the number `pos`  *)
(* of bytes consumed so far, and the I/O error it reports, if any, when it *)
(* is asked for the byte at a given offset (`fault`).                      *)
(***************************************************************************)
EXTENDS Integers, Sequences, FiniteSets, TLC

VARIABLES
    mode,        \* which entry point is running: "bulk" or "oneshot"
    input,       \* how the stream was composed (header, sections, tail)
    stream,      \* the bytes behind the reader
    fault,       \* the I/O error of the reader: its offset and its ErrorKind
    pos,         \* bytes of stream consumed by the reader so far
    pc,          \* position in the running function
    flag,        \* receive_data_bulk: flag[0], the last section tag read
    type_list,   \* receive_data_bulk: pending mime types
    ret,         \* receive_data_bulk: items built so far
    mime_types,  \* receive_data_oneshot: the candidate labels (argument)
    content,     \* receive_data_oneshot: the bytes read by read_to_end
    filtered,    \* receive_data_oneshot: the non-empty candidate labels
    result       \* the value returned to the caller, NoResult while running

vars == <<mode, input, stream, fault, pos, pc, flag, type_list, ret,
          mime_types, content, filtered, result>>

(***************************************************************************)
(* Program constants.                                                      *)
(***************************************************************************)
PROTOCAL_VER == 0
MAGIC == <<32, 9, 2, 20>>          \* 0x20 0x09 0x02 0x14
TagM == 77                         \* b'M'
TagC == 67                         \* b'C'

(***************************************************************************)
(* Bounds of the model.                                                    *)
(***************************************************************************)
MaxSections == 4      \* complete sections after a valid header
MaxCandidates == 3    \* candidate labels given to receive_data_oneshot

(***************************************************************************)
(* Result values.                                                          *)
(***************************************************************************)
NoResult == [tag |-> "None"]
Ok(v) == [tag |-> "Ok", value |-> v]
\* An anyhow error: the outermost message, the bytes the message formats,
\* and the kind of the underlying error where there is one.
Err(m, a, c) == [tag |-> "Err", msg |-> m, arg |-> a, cause |-> c]

SourceDataItem(mt, c) == [mime_type |-> mt, content |-> c]

(***************************************************************************)
(* The reader.  A call of Read::read made while the reader stands at       *)
(* offset f.at returns Err(f.kind) instead of bytes or of the end of the   *)
(* stream; the reader fails once, a call repeated after the error goes on. *)
(* An outcome of a read is a record; read_exact returns the SET of its     *)
(* possible outcomes, because the position of the reader after a read_exact*)
(* that met the end of the stream is left unspecified by std::io::Read.    *)
(***************************************************************************)
NoFault == [at |-> -1, kind |-> "none"]
FaultKinds == {"Interrupted", "BrokenPipe"}

\* A read of n bytes from offset p asks the reader at offset f.at.
Hits(s, p, n, f) == p <= f.at /\ f.at < p + n /\ f.at <= Len(s)

\* Read::read_exact: ErrorKind::Interrupted is retried, any other error is
\* returned; an empty buffer makes no call of read.
read_exact(s, p, n, f) ==
    IF Hits(s, p, n, f) /\ f.kind # "Interrupted"
    THEN {[ok |-> FALSE, buf |-> <<>>, pos |-> f.at, kind |-> f.kind]}
    ELSE IF p + n <= Len(s)
    THEN {[ok |-> TRUE, buf |-> SubSeq(s, p + 1, p + n), pos |-> p + n,
           kind |-> "none"]}
    ELSE {[ok |-> FALSE, buf |-> <<>>, pos |-> q, kind |-> "UnexpectedEof"]
             : q \in p..Len(s)}

\* reader.read(&mut flag) with a one-byte buffer: 0 bytes at end of stream,
\* and every error of the reader returned, ErrorKind::Interrupted included.
read_one(s, p, f) ==
    IF f.at = p
    THEN [ok |-> FALSE, n |-> 0, byte |-> 0, pos |-> p, kind |-> f.kind]
    ELSE IF p < Len(s)
    THEN [ok |-> TRUE, n |-> 1, byte |-> s[p + 1], pos |-> p + 1, kind |-> "none"]
    ELSE [ok |-> TRUE, n |-> 0, byte |-> 0, pos |-> p, kind |-> "none"]

\* reader.read_to_end(&mut content): ErrorKind::Interrupted is retried, any
\* other error is returned, the bytes read before it left in the buffer.
read_to_end(s, p, f) ==
    IF Hits(s, p, Len(s) + 1 - p, f) /\ f.kind # "Interrupted"
    THEN [ok |-> FALSE, buf |-> SubSeq(s, p + 1, f.at), pos |-> f.at,
          kind |-> f.kind]
    ELSE [ok |-> TRUE, buf |-> SubSeq(s, p + 1, Len(s)), pos |-> Len(s),
          kind |-> "none"]

\* The length bytes taken in little-endian order.
size_of_little_endian(size_buf) ==
      size_buf[4] * 16777216
    + size_buf[3] * 65536
    + size_buf[2] * 256
    + size_buf[1]

\* The length taken from its last byte only (the sum narrowed to a byte).
size_of_low_byte(size_buf) == size_buf[4]

\* ((b0 as u32) << 24) + ((b1 as u32) << 16) + ((b2 as u32) << 8) + b3 as u32.
\* Each byte is below 2^8, so no shift loses a bit and the sum is below 2^32:
\* the u32 arithmetic never wraps.
size_of(size_buf) ==
      size_buf[1] * 16777216
    + size_buf[2] * 65536
    + size_buf[3] * 256
    + size_buf[4]

(***************************************************************************)
(* String::from_utf8: the validation of core::str (run_utf8_validation).   *)
(* Utf8From(b, i) is TRUE iff b[i..] is well-formed UTF-8.                 *)
(***************************************************************************)
IsCont(b, i) == i <= Len(b) /\ b[i] >= 128 /\ b[i] <= 191

RECURSIVE Utf8From(_, _)
Utf8From(b, i) ==
    IF i > Len(b) THEN TRUE
    ELSE LET first == b[i] IN
         IF first < 128 THEN Utf8From(b, i + 1)
         ELSE IF first >= 194 /\ first <= 223
              THEN IsCont(b, i + 1) /\ Utf8From(b, i + 2)
         ELSE IF first >= 224 /\ first <= 239
              THEN /\ i + 1 <= Len(b)
                   /\ \/ first = 224 /\ b[i + 1] >= 160 /\ b[i + 1] <= 191
                      \/ first >= 225 /\ first <= 236 /\ IsCont(b, i + 1)
                      \/ first = 237 /\ b[i + 1] >= 128 /\ b[i + 1] <= 159
                      \/ first >= 238 /\ IsCont(b, i + 1)
                   /\ IsCont(b, i + 2)
                   /\ Utf8From(b, i + 3)
         ELSE IF first >= 240 /\ first <= 244
              THEN /\ i + 1 <= Len(b)
                   /\ \/ first = 240 /\ b[i + 1] >= 144 /\ b[i + 1] <= 191
                      \/ first >= 241 /\ first <= 243 /\ IsCont(b, i + 1)
                      \/ first = 244 /\ b[i + 1] >= 128 /\ b[i + 1] <= 143
                   /\ IsCont(b, i + 2)
                   /\ IsCont(b, i + 3)
                   /\ Utf8From(b, i + 4)
         ELSE FALSE

from_utf8(buf) == Utf8From(buf, 1)

(***************************************************************************)
(* read_mime_types and read_content: the set of outcomes of the call on    *)
(* the stream s at position p.                                             *)
(***************************************************************************)
Fail(m, a, c, p) == [ok |-> FALSE, val |-> <<>>, err |-> Err(m, a, c), pos |-> p]
Good(v, p) == [ok |-> TRUE, val |-> v, err |-> NoResult, pos |-> p]

read_mime_types(s, p, f) ==
    UNION { IF ~h.ok
            THEN {Fail("Failed to read mime type size", <<>>, h.kind, h.pos)}
            ELSE { IF ~b.ok
                   THEN Fail("Failed to read mime type", <<>>, b.kind, b.pos)
                   ELSE IF ~from_utf8(b.buf)
                   THEN Fail("Failed to parse mime type string", b.buf,
                             "FromUtf8Error", b.pos)
                   ELSE Good(b.buf, b.pos)
                   : b \in read_exact(s, h.pos, size_of(h.buf), f) }
            : h \in read_exact(s, p, 4, f) }

\* read_content handing out the payload without consuming it.
read_content_peek(s, p, f) ==
    UNION { IF ~h.ok
            THEN {Fail("Failed to read content size", <<>>, h.kind, h.pos)}
            ELSE { IF ~b.ok
                   THEN Fail("Failed to read content", <<>>, b.kind, b.pos)
                   ELSE Good(b.buf, h.pos)
                   : b \in read_exact(s, h.pos, size_of(h.buf), f) }
            : h \in read_exact(s, p, 4, f) }

\* read_content taking what is left of a short payload (read for read_exact).
read_content_short(s, p, f) ==
    UNION { IF ~h.ok
            THEN {Fail("Failed to read content size", <<>>, h.kind, h.pos)}
            ELSE { IF ~b.ok /\ b.kind # "UnexpectedEof"
                   THEN Fail("Failed to read content", <<>>, b.kind, b.pos)
                   ELSE IF ~b.ok
                   THEN Good(SubSeq(s, h.pos + 1, Len(s)), Len(s))
                   ELSE Good(b.buf, b.pos)
                   : b \in read_exact(s, h.pos, size_of(h.buf), f) }
            : h \in read_exact(s, p, 4, f) }

read_content(s, p, f) ==
    UNION { IF ~h.ok
            THEN {Fail("Failed to read content size", <<>>, h.kind, h.pos)}
            ELSE { IF ~b.ok
                   THEN Fail("Failed to read content", <<>>, b.kind, b.pos)
                   ELSE Good(b.buf, b.pos)
                   : b \in read_exact(s, h.pos, size_of(h.buf), f) }
            : h \in read_exact(s, p, 4, f) }

(***************************************************************************)
(* The wire format, as the sending side emits it: a section is a tag, the  *)
(* payload length as a big-endian u32, and the payload.                    *)
(***************************************************************************)
Section(t, p) == [tag |-> t, payload |-> p]

EncodeLen(n) ==
    << (n \div 16777216) % 256, (n \div 65536) % 256, (n \div 256) % 256, n % 256 >>

EncodeSection(sec) == <<sec.tag>> \o EncodeLen(Len(sec.payload)) \o sec.payload

RECURSIVE EncodeSections(_)
EncodeSections(secs) ==
    IF secs = <<>> THEN <<>>
    ELSE EncodeSection(Head(secs)) \o EncodeSections(Tail(secs))

ValidHeader == MAGIC \o <<PROTOCAL_VER>>

\* The sections that carry a list of items: per item one 'M' section per
\* label, in order, then one 'C' section.
RECURSIVE LabelSections(_)
LabelSections(labels) ==
    IF labels = <<>> THEN <<>>
    ELSE <<Section(TagM, Head(labels))>> \o LabelSections(Tail(labels))

RECURSIVE ItemSections(_)
ItemSections(items) ==
    IF items = <<>> THEN <<>>
    ELSE LabelSections(Head(items).mime_type)
         \o <<Section(TagC, Head(items).content)>>
         \o ItemSections(Tail(items))

EncodeItems(items) == ValidHeader \o EncodeSections(ItemSections(items))

(***************************************************************************)
(* The inputs of the model.  A bulk stream is a header, a sequence of      *)
(* complete sections and a tail: nothing, a section cut short, a section   *)
(* whose length field promises more than the stream holds, an 'M' section  *)
(* that is not UTF-8, or an unknown tag.                                   *)
(***************************************************************************)
LabelMenu == { <<>>, <<67>>, <<195, 169>> }      \* "", "C", "e-acute"
ContentMenu == { <<>>, <<77>> }                  \* "", "M"

SectionMenu ==
    {Section(TagM, l) : l \in LabelMenu} \cup {Section(TagC, c) : c \in ContentMenu}

RECURSIVE SectionSeqs(_)
SectionSeqs(n) ==
    IF n = 0 THEN {<<>>}
    ELSE LET prev == SectionSeqs(n - 1)
         IN  prev \cup {Append(q, sec) : q \in {x \in prev : Len(x) = n - 1},
                                          sec \in SectionMenu}

Prefixes(b) == {SubSeq(b, 1, k) : k \in 1..(Len(b) - 1)}

TruncatedTails ==
    UNION {Prefixes(EncodeSection(sec)) : sec \in SectionMenu}

OversizeTails ==
    { <<77, 0, 0, 1, 0>>, <<77, 0, 0, 1, 0, 67>>,
      <<67, 0, 0, 1, 0, 0>>, <<67, 1, 0, 0, 0>> }

BadUtf8Tails ==
    { <<77, 0, 0, 0, 1, 255>>, <<77, 0, 0, 0, 1, 195>>,
      <<77, 0, 0, 0, 2, 195, 67>>, <<77, 0, 0, 0, 1, 255, 67, 0, 0, 0, 0>> }

UnknownTagTails == { <<88>>, <<0>>, <<88, 77, 0, 0, 0, 0>> }

Tails == TruncatedTails \cup OversizeTails \cup BadUtf8Tails \cup UnknownTagTails

WrongBytes == {0, 2, 33}

BadMagics ==
    {[MAGIC EXCEPT ![i] = b] : i \in 1..4, b \in WrongBytes} \ {MAGIC}

BadHeaders ==
    {m \o <<v>> : m \in BadMagics, v \in {PROTOCAL_VER, 99}}
    \cup BadMagics
    \cup {MAGIC \o <<v>> : v \in {1, 99, 255}}

TruncatedHeaders == {SubSeq(ValidHeader, 1, k) : k \in 0..4}

SmallBodies ==
    { <<>>,
      <<Section(TagM, <<67>>)>>,
      <<Section(TagM, <<67>>), Section(TagC, <<77>>)>> }

\* A block of 256 bytes, the first length that needs the third length byte.
BigLen == 256
BigBlock == [i \in 1..BigLen |-> 0]
\* 256 bytes that are no UTF-8 text.
BadBlock == [i \in 1..BigLen |-> 255]

BulkInput(h, secs, t) ==
    [kind |-> "sections", header |-> h, sections |-> secs, tail |-> t,
     start |-> 0, items |-> <<>>]

\* The lists of items (each with one label or more) whose encoding has at
\* most n sections.
RECURSIVE LabelSeqs(_)
LabelSeqs(n) ==
    IF n = 0 THEN {<<>>}
    ELSE LET prev == LabelSeqs(n - 1)
         IN  prev \cup {Append(q, l) : q \in {x \in prev : Len(x) = n - 1},
                                        l \in LabelMenu}

ItemsWithin(n) ==
    {SourceDataItem(ls, c) : ls \in LabelSeqs(n - 1) \ {<<>>}, c \in ContentMenu}

RECURSIVE ItemLists(_)
ItemLists(n) ==
    IF n < 2 THEN {<<>>}
    ELSE {<<>>} \cup
         UNION { {<<it>> \o rest : rest \in ItemLists(n - Len(it.mime_type) - 1)}
                 : it \in ItemsWithin(n) }

ItemsInput(its) ==
    [kind |-> "items", header |-> ValidHeader, sections |-> ItemSections(its),
     tail |-> <<>>, start |-> 0, items |-> its]

BigBodies == { <<Section(TagM, <<67>>), Section(TagC, BigBlock)>> }

\* An 'M' section of 256 bytes that are no UTF-8 text, then a valid section.
BigTails == { <<77, 0, 0, 1, 0>> \o BadBlock \o <<77, 0, 0, 0, 0>> }

BulkInputs ==
    {BulkInput(ValidHeader, secs, <<>>) : secs \in SectionSeqs(MaxSections)}
    \cup {BulkInput(ValidHeader, secs, t) :
              secs \in SectionSeqs(MaxSections - 1), t \in Tails}
    \cup {BulkInput(h, secs, t) :
              h \in BadHeaders, secs \in SmallBodies, t \in {<<>>, <<88>>}}
    \cup {BulkInput(h, <<>>, <<>>) : h \in TruncatedHeaders}
    \cup {ItemsInput(its) : its \in ItemLists(MaxSections)}
    \cup {BulkInput(ValidHeader, secs, <<>>) : secs \in BigBodies}
    \cup {BulkInput(ValidHeader, <<>>, t) : t \in BigTails}

StreamOf(inp) == inp.header \o EncodeSections(inp.sections) \o inp.tail

\* The readers over the bytes s: the one that never fails, and the ones
\* that fail once, at an offset up to the end of the stream.
Faults(s) ==
    {NoFault} \cup {[at |-> a, kind |-> k] : a \in 0..Len(s), k \in FaultKinds}

\* The short section sequences, two items with the first content the byte
\* 'M' and the last content empty, and an item followed by a 'C' section.
FaultBodies ==
    SectionSeqs(MaxSections - 2)
    \cup { <<Section(TagM, <<67>>), Section(TagC, <<77>>),
             Section(TagM, <<195, 169>>), Section(TagC, <<>>)>>,
           <<Section(TagM, <<67>>), Section(TagC, <<77>>), Section(TagC, <<>>)>> }

\* The streams that are read through every failing reader.
FaultyInputs ==
    {BulkInput(ValidHeader, secs, <<>>) : secs \in FaultBodies}
    \cup {BulkInput(ValidHeader, secs, t) : secs \in SmallBodies, t \in Tails}
    \cup {BulkInput(h, <<Section(TagM, <<67>>)>>, <<>>) : h \in BadHeaders}
    \cup {BulkInput(h, <<>>, <<>>) : h \in TruncatedHeaders}
    \cup {ItemsInput(its) : its \in ItemLists(MaxSections - 1)}

CandidateMenu == { <<>>, <<116>>, <<112>> }      \* "", "t", "p"

RECURSIVE CandidateLists(_)
CandidateLists(n) ==
    IF n = 0 THEN {<<>>}
    ELSE LET prev == CandidateLists(n - 1)
         IN  prev \cup {Append(q, c) : q \in {x \in prev : Len(x) = n - 1},
                                        c \in CandidateMenu}

OneshotStreams == { <<>>, <<71>>, <<71, 79, 79, 68>> }   \* "", "G", "GOOD"

(***************************************************************************)
(* Initial states: a call of one of the two entry points on a fresh input. *)
(***************************************************************************)
InitBulk ==
    /\ mode = "bulk"
    /\ \/ input \in BulkInputs /\ fault = NoFault
       \/ input \in FaultyInputs /\ fault \in Faults(StreamOf(input))
    /\ stream = StreamOf(input)
    /\ pos = 0
    /\ pc = "magic"
    /\ mime_types = <<>>

InitOneshot ==
    /\ mode = "oneshot"
    /\ \E s \in OneshotStreams, p \in 0..4 :
          /\ p <= Len(s)
          /\ input = [kind |-> "oneshot", header |-> <<>>, sections |-> <<>>,
                       tail |-> s, start |-> p, items |-> <<>>]
          /\ stream = s
          /\ pos = p
          /\ fault \in Faults(s)
    /\ pc = "read_to_end"
    /\ mime_types \in CandidateLists(MaxCandidates)

Init ==
    /\ InitBulk \/ InitOneshot
    /\ flag = 0
    /\ type_list = <<>>
    /\ ret = <<>>
    /\ content = <<>>
    /\ filtered = <<>>
    /\ result = NoResult

(***************************************************************************)
(* receive_data_bulk                                                       *)
(***************************************************************************)
Return(r) == result' = r /\ pc' = "done"

\* CheckMagic comparing only the first byte of the magic.
CheckMagic_FirstByteOnly ==
    /\ mode = "bulk" /\ pc = "magic"
    /\ \E h \in read_exact(stream, pos, 4, fault) :
          /\ pos' = h.pos
          /\ IF ~h.ok
             THEN Return(Err("Failed to read magic header", <<>>, h.kind))
             ELSE IF h.buf[1] # MAGIC[1]
             THEN Return(Err("Failed to match magic header", h.buf, "none"))
             ELSE pc' = "version" /\ result' = result
    /\ UNCHANGED <<mode, input, stream, fault, flag, type_list, ret,
                   mime_types, content, filtered>>

\* lines 36-43: read the magic and compare it
CheckMagic ==
    /\ mode = "bulk" /\ pc = "magic"
    /\ \E h \in read_exact(stream, pos, 4, fault) :
          /\ pos' = h.pos
          /\ IF ~h.ok
             THEN Return(Err("Failed to read magic header", <<>>, h.kind))
             ELSE IF h.buf # MAGIC
             THEN Return(Err("Failed to match magic header", h.buf, "none"))
             ELSE pc' = "version" /\ result' = result
    /\ UNCHANGED <<mode, input, stream, fault, flag, type_list, ret,
                   mime_types, content, filtered>>

\* CheckVersion reading the version byte without comparing it.
CheckVersion_NoCompare ==
    /\ mode = "bulk" /\ pc = "version"
    /\ \E h \in read_exact(stream, pos, 1, fault) :
          /\ pos' = h.pos
          /\ IF ~h.ok
             THEN Return(Err("Failed to read protocal version", <<>>, h.kind))
             ELSE pc' = "loop" /\ result' = result
    /\ UNCHANGED <<mode, input, stream, fault, flag, type_list, ret,
                   mime_types, content, filtered>>

\* lines 45-52: read the version and compare it
CheckVersion ==
    /\ mode = "bulk" /\ pc = "version"
    /\ \E h \in read_exact(stream, pos, 1, fault) :
          /\ pos' = h.pos
          /\ IF ~h.ok
             THEN Return(Err("Failed to read protocal version", <<>>, h.kind))
             ELSE IF h.buf[1] # PROTOCAL_VER
             THEN Return(Err("Failed to match protoal version", h.buf, "none"))
             ELSE pc' = "loop" /\ result' = result
    /\ UNCHANGED <<mode, input, stream, fault, flag, type_list, ret,
                   mime_types, content, filtered>>

\* ReadFlag reading the flag with read_exact: the end of the stream is an error.
ReadFlag_EofIsError ==
    /\ mode = "bulk" /\ pc = "loop"
    /\ LET r == read_one(stream, pos, fault) IN
          /\ pos' = r.pos
          /\ IF ~r.ok
             THEN Return(Err("Failed to read flag", <<>>, r.kind)) /\ flag' = flag
             ELSE IF r.n = 0
             THEN Return(Err("Failed to read flag", <<>>, "UnexpectedEof")) /\ flag' = flag
             ELSE pc' = "match" /\ flag' = r.byte /\ result' = result
    /\ UNCHANGED <<mode, input, stream, fault, type_list, ret,
                   mime_types, content, filtered>>

\* ReadFlag going round the loop again at the end of the stream (continue for
\* break).
ReadFlag_ContinueOnEof ==
    /\ mode = "bulk" /\ pc = "loop"
    /\ LET r == read_one(stream, pos, fault) IN
          /\ pos' = r.pos
          /\ IF ~r.ok
             THEN Return(Err("Failed to read flag", <<>>, r.kind)) /\ flag' = flag
             ELSE IF r.n = 0
             THEN pc' = "loop" /\ flag' = flag /\ result' = result
             ELSE pc' = "match" /\ flag' = r.byte /\ result' = result
    /\ UNCHANGED <<mode, input, stream, fault, type_list, ret,
                   mime_types, content, filtered>>

\* ReadFlag taking a read that failed for the end of the stream (the error
\* dropped, as with unwrap_or(0)).
ReadFlag_ErrorIsEof ==
    /\ mode = "bulk" /\ pc = "loop"
    /\ LET r == read_one(stream, pos, fault) IN
          /\ pos' = r.pos
          /\ IF r.n = 0
             THEN pc' = "break" /\ flag' = flag
             ELSE pc' = "match" /\ flag' = r.byte
    /\ UNCHANGED <<mode, input, stream, fault, type_list, ret,
                   mime_types, content, filtered, result>>

\* lines 58-62: read one flag byte; an error of the read is returned, zero
\* bytes read leaves the loop
ReadFlag ==
    /\ mode = "bulk" /\ pc = "loop"
    /\ LET r == read_one(stream, pos, fault) IN
          /\ pos' = r.pos
          /\ IF ~r.ok
             THEN Return(Err("Failed to read flag", <<>>, r.kind)) /\ flag' = flag
             ELSE IF r.n = 0
             THEN pc' = "break" /\ flag' = flag /\ result' = result
             ELSE pc' = "match" /\ flag' = r.byte /\ result' = result
    /\ UNCHANGED <<mode, input, stream, fault, type_list, ret,
                   mime_types, content, filtered>>

\* MatchMime leaving out an empty mime type, as receive_data_oneshot does.
MatchMime_SkipEmpty ==
    /\ mode = "bulk" /\ pc = "match" /\ flag = TagM
    /\ \E o \in read_mime_types(stream, pos, fault) :
          /\ pos' = o.pos
          /\ IF o.ok
             THEN /\ type_list' = IF o.val = <<>> THEN type_list
                                  ELSE Append(type_list, o.val)
                  /\ pc' = "loop"
                  /\ result' = result
             ELSE /\ type_list' = type_list
                  /\ Return(o.err)
    /\ UNCHANGED <<mode, input, stream, fault, flag, ret, mime_types, content, filtered>>

\* lines 65-68: b'M'
MatchMime ==
    /\ mode = "bulk" /\ pc = "match" /\ flag = TagM
    /\ \E o \in read_mime_types(stream, pos, fault) :
          /\ pos' = o.pos
          /\ IF o.ok
             THEN /\ type_list' = Append(type_list, o.val)
                  /\ pc' = "loop"
                  /\ result' = result
             ELSE /\ type_list' = type_list
                  /\ Return(o.err)
    /\ UNCHANGED <<mode, input, stream, fault, flag, ret, mime_types, content, filtered>>

\* MatchContent checking the pending mime types after reading the content.
MatchContent_CheckAfterRead ==
    /\ mode = "bulk" /\ pc = "match" /\ flag = TagC
    /\ \E o \in read_content(stream, pos, fault) :
          /\ pos' = o.pos
          /\ IF ~o.ok
             THEN /\ Return(o.err)
                  /\ UNCHANGED <<type_list, ret>>
             ELSE IF type_list = <<>>
             THEN /\ Return(Err("Failed to read content with empty mime type",
                                <<>>, "none"))
                  /\ UNCHANGED <<type_list, ret>>
             ELSE /\ ret' = Append(ret, SourceDataItem(type_list, o.val))
                  /\ type_list' = <<>>
                  /\ pc' = "loop"
                  /\ result' = result
    /\ UNCHANGED <<mode, input, stream, fault, flag, mime_types, content, filtered>>

\* MatchContent without the check of an empty type_list.
MatchContent_NoCheck ==
    /\ mode = "bulk" /\ pc = "match" /\ flag = TagC
    /\ \E o \in read_content(stream, pos, fault) :
          /\ pos' = o.pos
          /\ IF o.ok
             THEN /\ ret' = Append(ret, SourceDataItem(type_list, o.val))
                  /\ type_list' = <<>>
                  /\ pc' = "loop"
                  /\ result' = result
             ELSE /\ Return(o.err)
                  /\ UNCHANGED <<type_list, ret>>
    /\ UNCHANGED <<mode, input, stream, fault, flag, mime_types, content, filtered>>

\* MatchContent without `type_list = Vec::new()` after the push.
MatchContent_NoReset ==
    /\ mode = "bulk" /\ pc = "match" /\ flag = TagC
    /\ IF type_list = <<>>
       THEN /\ Return(Err("Failed to read content with empty mime type", <<>>, "none"))
            /\ UNCHANGED <<pos, type_list, ret>>
       ELSE \E o \in read_content(stream, pos, fault) :
               /\ pos' = o.pos
               /\ IF o.ok
                  THEN /\ ret' = Append(ret, SourceDataItem(type_list, o.val))
                       /\ type_list' = type_list
                       /\ pc' = "loop"
                       /\ result' = result
                  ELSE /\ Return(o.err)
                       /\ UNCHANGED <<type_list, ret>>
    /\ UNCHANGED <<mode, input, stream, fault, flag, mime_types, content, filtered>>

\* lines 69-79: b'C'
MatchContent ==
    /\ mode = "bulk" /\ pc = "match" /\ flag = TagC
    /\ IF type_list = <<>>
       THEN /\ Return(Err("Failed to read content with empty mime type", <<>>, "none"))
            /\ UNCHANGED <<pos, type_list, ret>>
       ELSE \E o \in read_content(stream, pos, fault) :
               /\ pos' = o.pos
               /\ IF o.ok
                  THEN /\ ret' = Append(ret, SourceDataItem(type_list, o.val))
                       /\ type_list' = <<>>
                       /\ pc' = "loop"
                       /\ result' = result
                  ELSE /\ Return(o.err)
                       /\ UNCHANGED <<type_list, ret>>
    /\ UNCHANGED <<mode, input, stream, fault, flag, mime_types, content, filtered>>

\* MatchOther ending the loop on an unknown flag, as at end of stream.
MatchOther_AsEof ==
    /\ mode = "bulk" /\ pc = "match" /\ flag # TagM /\ flag # TagC
    /\ pc' = "break"
    /\ UNCHANGED <<mode, input, stream, fault, pos, flag, type_list, ret,
                   mime_types, content, filtered, result>>

\* MatchOther reporting a fixed byte instead of the flag read.
MatchOther_NoByte ==
    /\ mode = "bulk" /\ pc = "match" /\ flag # TagM /\ flag # TagC
    /\ Return(Err("Failed to parse flag", <<0>>, "none"))
    /\ UNCHANGED <<mode, input, stream, fault, pos, flag, type_list, ret,
                   mime_types, content, filtered>>

\* lines 80-82: any other flag
MatchOther ==
    /\ mode = "bulk" /\ pc = "match" /\ flag # TagM /\ flag # TagC
    /\ Return(Err("Failed to parse flag", <<flag>>, "none"))
    /\ UNCHANGED <<mode, input, stream, fault, pos, flag, type_list, ret,
                   mime_types, content, filtered>>

\* ReturnBulk turning the pending mime types into a last item without content.
ReturnBulk_FlushPending ==
    /\ mode = "bulk" /\ pc = "break"
    /\ Return(Ok(IF type_list = <<>> THEN ret
                 ELSE Append(ret, SourceDataItem(type_list, <<>>))))
    /\ UNCHANGED <<mode, input, stream, fault, pos, flag, type_list, ret,
                   mime_types, content, filtered>>

\* line 86: Ok(ret)
ReturnBulk ==
    /\ mode = "bulk" /\ pc = "break"
    /\ Return(Ok(ret))
    /\ UNCHANGED <<mode, input, stream, fault, pos, flag, type_list, ret,
                   mime_types, content, filtered>>

(***************************************************************************)
(* receive_data_oneshot                                                    *)
(***************************************************************************)
\* lines 93-97: read to the end of the stream; an error of the read is
\* returned
OneshotRead ==
    /\ mode = "oneshot" /\ pc = "read_to_end"
    /\ LET r == read_to_end(stream, pos, fault) IN
          /\ content' = r.buf
          /\ pos' = r.pos
          /\ IF r.ok
             THEN pc' = "filter" /\ result' = result
             ELSE Return(Err("Failed to read content", <<>>, r.kind))
    /\ UNCHANGED <<mode, input, stream, fault, flag, type_list, ret,
                   mime_types, filtered>>

non_empty(t) == t # <<>>

\* OneshotFilter dropping repeated labels as well as empty ones.
OneshotFilter_Dedup ==
    /\ mode = "oneshot" /\ pc = "filter"
    /\ LET kept(i) == /\ mime_types[i] # <<>>
                      /\ \A j \in 1..(i - 1) : mime_types[j] # mime_types[i]
           idx == {i \in 1..Len(mime_types) : kept(i)}
           nth(n) == CHOOSE i \in idx : Cardinality({j \in idx : j <= i}) = n
       IN  filtered' = [n \in 1..Cardinality(idx) |-> mime_types[nth(n)]]
    /\ IF filtered' = <<>>
       THEN Return(Err("All given mime_types are empty", <<>>, "none"))
       ELSE pc' = "build" /\ result' = result
    /\ UNCHANGED <<mode, input, stream, fault, pos, flag, type_list, ret,
                   mime_types, content>>

\* OneshotFilter without the check of an empty filtered list.
OneshotFilter_NoCheck ==
    /\ mode = "oneshot" /\ pc = "filter"
    /\ filtered' = SelectSeq(mime_types, non_empty)
    /\ pc' = "build" /\ result' = result
    /\ UNCHANGED <<mode, input, stream, fault, pos, flag, type_list, ret,
                   mime_types, content>>

\* lines 99-106
OneshotFilter ==
    /\ mode = "oneshot" /\ pc = "filter"
    /\ filtered' = SelectSeq(mime_types, non_empty)
    /\ IF filtered' = <<>>
       THEN Return(Err("All given mime_types are empty", <<>>, "none"))
       ELSE pc' = "build" /\ result' = result
    /\ UNCHANGED <<mode, input, stream, fault, pos, flag, type_list, ret,
                   mime_types, content>>

\* lines 108-112
OneshotReturn ==
    /\ mode = "oneshot" /\ pc = "build"
    /\ Return(Ok(<<SourceDataItem(filtered, content)>>))
    /\ UNCHANGED <<mode, input, stream, fault, pos, flag, type_list, ret,
                   mime_types, content, filtered>>

Next ==
    \/ CheckMagic
    \/ CheckVersion
    \/ ReadFlag
    \/ MatchMime
    \/ MatchContent
    \/ MatchOther
    \/ ReturnBulk
    \/ OneshotRead
    \/ OneshotFilter
    \/ OneshotReturn

Spec == Init /\ [][Next]_vars

\* The functions run to their return: a call that can take a step takes it.
FairSpec == Spec /\ WF_vars(Next)

(***************************************************************************)
(* Vocabulary of the properties.                                           *)
(***************************************************************************)
BulkDone == mode = "bulk" /\ pc = "done"
OneshotDone == mode = "oneshot" /\ pc = "done"

\* The indexes of the 'C' sections of a section sequence.
CIndexes(secs) == {k \in 1..Len(secs) : secs[k].tag = TagC}

\* The index of the last 'C' section before index k, 0 if there is none.
PrevC(secs, k) ==
    LET before == {j \in CIndexes(secs) : j < k}
    IN  IF before = {} THEN 0
        ELSE CHOOSE j \in before : \A i \in before : i <= j

LastC(secs) == PrevC(secs, Len(secs) + 1)

\* The index of the i-th 'C' section.
NthC(secs, i) ==
    CHOOSE k \in CIndexes(secs) : Cardinality({j \in CIndexes(secs) : j <= k}) = i

\* The payloads of the sections between the previous 'C' section (or the
\* header) and section k, in stream order.
LabelsBefore(secs, k) ==
    LET p == PrevC(secs, k)
    IN  [i \in 1..(k - p - 1) |-> secs[p + i].payload]

\* One item per 'C' section, in stream order.
ExpectedItems(secs) ==
    [i \in 1..Cardinality(CIndexes(secs)) |->
        LET k == NthC(secs, i)
        IN  SourceDataItem(LabelsBefore(secs, k), secs[k].payload)]

\* No pending label after the sections secs.
PendingEmpty(secs) == secs = <<>> \/ secs[Len(secs)].tag = TagC

\* Every 'C' section has an 'M' section right before it, and every label is
\* UTF-8.
WellFormed(secs) ==
    \A k \in 1..Len(secs) :
        /\ secs[k].tag = TagC => (k > 1 /\ secs[k - 1].tag = TagM)
        /\ secs[k].tag = TagM => from_utf8(secs[k].payload)

\* The number of bytes of the header and the first k sections.
SectionEnd(secs, k) == Len(ValidHeader) + Len(EncodeSections(SubSeq(secs, 1, k)))

\* The offsets at which the sections secs, and what follows them, begin:
\* where the loop reads a flag.
FlagOffsets(secs) == {SectionEnd(secs, k) : k \in 0..Len(secs)}

\* The reader reports its error to the decoder if the decoder reads the
\* first lim bytes of a stream that begins with a header and the sections
\* secs: every error but Interrupted, and Interrupted where a flag is read
\* (read_exact repeats a read that was interrupted, the read of a flag is
\* not repeated).
Surfaces(secs, lim) ==
    /\ fault.at >= 0 /\ fault.at < lim
    /\ fault.kind # "Interrupted" \/ fault.at \in FlagOffsets(secs)

\* The reader hands the whole stream, and its end, to the decoder without
\* reporting an error: the Readable of the specification, whose reads
\* return a count of bytes, 0 at the end of the stream.
Delivered == ~Surfaces(input.sections, Len(stream) + 1)

\* The reader hands the first n bytes of the stream to a read_exact.
HeaderRead(n) == ~Surfaces(<<>>, n)

ValidStream ==
    /\ mode = "bulk"
    /\ input.header = ValidHeader
    /\ input.tail = <<>>
    /\ WellFormed(input.sections)

(***************************************************************************)
(* C1: on a stream with the right magic and version and a well-formed      *)
(* section sequence, handed over by a reader that reports no error,       *)
(* receive_data_bulk succeeds and returns one item per 'C' section, in     *)
(* stream order; each item has the payload of its 'C' section as content   *)
(* and, as mime types, the payloads of the 'M' sections since the previous *)
(* 'C' section (or the header), in order, duplicates kept.                 *)
(***************************************************************************)
C1_ValidStreamDecodes ==
    (BulkDone /\ ValidStream /\ Delivered) =>
        result = Ok(ExpectedItems(input.sections))

\* two different items; a read inside a field was interrupted and repeated
C1_Witness ==
    /\ BulkDone /\ ValidStream /\ Delivered
    /\ fault.kind = "Interrupted"
    /\ result.tag = "Ok"
    /\ Len(result.value) = 2
    /\ result.value[1] # result.value[2]
    /\ result.value[2].mime_type # <<>>

(***************************************************************************)
(* C2: when the first four bytes of the stream are not the magic,          *)
(* receive_data_bulk fails with the bad-magic error; it has read exactly   *)
(* those four bytes, never reaches the version check or the section loop,  *)
(* and has built nothing.  (The four bytes are handed over by the reader:  *)
(* a reader that fails later changes nothing, it is not asked again.)      *)
(***************************************************************************)
BadMagicStream ==
    mode = "bulk" /\ Len(stream) >= 4 /\ SubSeq(stream, 1, 4) # MAGIC

C2_BadMagicFails ==
    BadMagicStream =>
        /\ pos <= 4
        /\ pc \in {"magic", "done"}
        /\ ret = <<>> /\ type_list = <<>>
        /\ (pc = "done" /\ HeaderRead(4)) =>
              /\ result = Err("Failed to match magic header", SubSeq(stream, 1, 4), "none")
              /\ pos = 4

\* one byte of the magic changed, a valid version and a valid section
\* follow, and the reader would fail at the version byte
C2_Witness ==
    /\ BulkDone /\ BadMagicStream
    /\ fault = [at |-> 4, kind |-> "BrokenPipe"]
    /\ Cardinality({i \in 1..4 : stream[i] # MAGIC[i]}) = 1
    /\ stream[1] = MAGIC[1]
    /\ Len(stream) > 5 /\ stream[5] = PROTOCAL_VER /\ stream[6] = TagM
    /\ result.tag = "Err"

(***************************************************************************)
(* C3: when the magic is right and the fifth byte is not the supported     *)
(* version, receive_data_bulk fails with the unsupported-version error     *)
(* whatever follows; it has read exactly five bytes and never reads a      *)
(* section tag.  (The five bytes are handed over by the reader.)           *)
(***************************************************************************)
BadVersionStream ==
    /\ mode = "bulk" /\ Len(stream) >= 5
    /\ SubSeq(stream, 1, 4) = MAGIC
    /\ stream[5] # PROTOCAL_VER

C3_BadVersionFails ==
    BadVersionStream =>
        /\ pos <= 5
        /\ pc \in {"magic", "version", "done"}
        /\ ret = <<>> /\ type_list = <<>>
        /\ (pc = "done" /\ HeaderRead(5)) =>
              /\ result = Err("Failed to match protoal version", <<stream[5]>>, "none")
              /\ pos = 5

\* valid sections follow the bad version
C3_Witness ==
    /\ BulkDone /\ BadVersionStream /\ HeaderRead(5)
    /\ Len(input.sections) = 2
    /\ WellFormed(input.sections)
    /\ result.tag = "Err"

(***************************************************************************)
(* C4: a 'C' tag read while no mime type is pending fails with the         *)
(* content-without-mime-type error, and the reader stands right after the  *)
(* tag: the check comes before the length is read, so the error is the     *)
(* same whatever follows the tag, also when the stream ends there or the   *)
(* reader would fail there.  (The tag and the bytes before it are handed   *)
(* over by the reader.)                                                    *)
(***************************************************************************)
\* The tag of the k-th section of the input, the tail counted as the last.
TagAt(inp, k) ==
    IF k <= Len(inp.sections) THEN inp.sections[k].tag
    ELSE IF inp.tail # <<>> THEN inp.tail[1]
    ELSE -1

\* Section k is a 'C' section met with no pending mime type, and the
\* sections before it are well-formed.
ContentWithoutMime(inp, k) ==
    /\ inp.header = ValidHeader
    /\ WellFormed(SubSeq(inp.sections, 1, k - 1))
    /\ PendingEmpty(SubSeq(inp.sections, 1, k - 1))
    /\ TagAt(inp, k) = TagC

C4_ContentNeedsMime ==
    BulkDone =>
        \A k \in 1..(Len(input.sections) + 1) :
            (/\ ContentWithoutMime(input, k)
             /\ ~Surfaces(input.sections, SectionEnd(input.sections, k - 1) + 1)) =>
                /\ result = Err("Failed to read content with empty mime type",
                                <<>>, "none")
                /\ pos = SectionEnd(input.sections, k - 1) + 1

\* after one complete item the stream ends right after a 'C' byte, where
\* the next read would fail
C4_Witness ==
    /\ BulkDone
    /\ fault = [at |-> Len(stream), kind |-> "BrokenPipe"]
    /\ Len(input.sections) = 2
    /\ ContentWithoutMime(input, 3)
    /\ input.tail = <<TagC>>
    /\ pos = Len(stream)
    /\ Len(ret) = 1
    /\ result.tag = "Err"

(***************************************************************************)
(* C5: a valid stream that ends with 'M' sections and no 'C' after them,   *)
(* handed over by a reader that reports no error, succeeds; the returned   *)
(* items are exactly those of the sections up to the last 'C' section, so  *)
(* the trailing labels are in no item.                                     *)
(***************************************************************************)
TrailingLabels ==
    /\ ValidStream /\ Delivered
    /\ input.sections # <<>>
    /\ input.sections[Len(input.sections)].tag = TagM

C5_TrailingLabelsDropped ==
    (BulkDone /\ TrailingLabels) =>
        /\ result.tag = "Ok"
        /\ Len(result.value) = Cardinality(CIndexes(input.sections))
        /\ ItemSections(result.value)
              = SubSeq(input.sections, 1, LastC(input.sections))

\* one item, then two trailing labels
C5_Witness ==
    /\ BulkDone /\ TrailingLabels
    /\ LastC(input.sections) = 2
    /\ Len(input.sections) = 4
    /\ Len(type_list) = 2
    /\ result.tag = "Ok"
    /\ Len(result.value) = 1

(***************************************************************************)
(* C6: bulk decoding is all or nothing: a stream with a bad magic, a bad   *)
(* version, a truncation, a label that is not UTF-8, a 'C' section without *)
(* label or an unknown tag, and a stream whose reader reports an error,    *)
(* yields an error and no item, also when items were built before the      *)
(* failing section.                                                        *)
(***************************************************************************)
Malformed(inp) ==
    \/ inp.header # ValidHeader
    \/ inp.tail # <<>>
    \/ ~WellFormed(inp.sections)

C6_AllOrNothing ==
    (BulkDone /\ (Malformed(input) \/ ~Delivered)) =>
        /\ result.tag = "Err"
        /\ "value" \notin DOMAIN result

\* an item was built before the failing section
C6_Witness ==
    /\ BulkDone /\ Malformed(input) /\ Delivered
    /\ Len(ret) = 1
    /\ result.tag = "Err"

(***************************************************************************)
(* C7: a stream may end without error only at a section boundary (the      *)
(* reader reporting the end of the stream, and no error, where it ends).   *)
(***************************************************************************)
\* The stream ends inside the header, or, after a valid header and
\* well-formed sections, inside a length field or before the declared
\* payload is complete.
TruncatedInput(inp) ==
    \/ inp.kind = "sections" /\ inp.header \in TruncatedHeaders
    \/ /\ inp.header = ValidHeader
       /\ WellFormed(inp.sections)
       /\ inp.tail \in TruncatedTails \cup OversizeTails

\* The cases C7 lists: the stream ends inside the magic, before the version
\* byte, inside a length field (one of its bytes at least is there) or
\* inside a payload.
CutInsideField(inp) ==
    /\ TruncatedInput(inp)
    /\ inp.header = ValidHeader => Len(inp.tail) >= 2

\* C7 as claimed: every such stream fails with a truncated-input error.
C7_TruncationIsReadError ==
    (BulkDone /\ CutInsideField(input) /\ Delivered) =>
        /\ result.tag = "Err"
        /\ result.cause = "UnexpectedEof"

\* C7 as amended: every such stream fails; the error is the truncated-input
\* error of the field that is cut, except for a cut 'C' section met with no
\* pending mime type, which fails with the content-without-mime-type error.
TruncationMessage(inp) ==
    IF inp.header # ValidHeader
    THEN IF Len(inp.header) < 4 THEN "Failed to read magic header"
         ELSE "Failed to read protocal version"
    ELSE IF inp.tail[1] = TagM
    THEN IF Len(inp.tail) < 5 THEN "Failed to read mime type size"
         ELSE "Failed to read mime type"
    ELSE IF Len(inp.tail) < 5 THEN "Failed to read content size"
         ELSE "Failed to read content"

C7_TruncationFails ==
    (BulkDone /\ TruncatedInput(input) /\ Delivered) =>
        IF ContentWithoutMime(input, Len(input.sections) + 1)
        THEN result = Err("Failed to read content with empty mime type", <<>>, "none")
        ELSE result = Err(TruncationMessage(input), <<>>, "UnexpectedEof")

\* a 'C' section with a pending label, cut before its payload
C7_Witness ==
    /\ BulkDone /\ TruncatedInput(input) /\ Delivered
    /\ input.tail = <<TagC, 0, 0, 0, 1>>
    /\ type_list # <<>>
    /\ result = Err("Failed to read content", <<>>, "UnexpectedEof")

(***************************************************************************)
(* C8: a tag that is neither 'M' nor 'C' fails with the unknown-tag error  *)
(* carrying the tag, whatever is pending and whatever was built; nothing   *)
(* after the tag is read.  (The tag and the bytes before it are handed     *)
(* over by the reader.)                                                    *)
(***************************************************************************)
UnknownTagInput(inp) ==
    /\ inp.header = ValidHeader
    /\ WellFormed(inp.sections)
    /\ inp.tail # <<>>
    /\ inp.tail[1] \notin {TagM, TagC}
    /\ ~Surfaces(inp.sections, SectionEnd(inp.sections, Len(inp.sections)) + 1)

C8_UnknownTagFails ==
    (BulkDone /\ UnknownTagInput(input)) =>
        /\ result = Err("Failed to parse flag", <<input.tail[1]>>, "none")
        /\ pos = SectionEnd(input.sections, Len(input.sections)) + 1

\* an item is built, a label is pending, and a valid section follows the tag
C8_Witness ==
    /\ BulkDone /\ UnknownTagInput(input)
    /\ ret # <<>> /\ type_list # <<>>
    /\ pos < Len(stream)
    /\ result.tag = "Err" /\ result.arg = <<88>>

(***************************************************************************)
(* C9: round trip: the encoding of a list of items, each with one label or *)
(* more and any content, the empty content included, decodes to the list   *)
(* (the reader reporting no error).                                        *)
(***************************************************************************)
C9_RoundTrip ==
    (BulkDone /\ input.kind = "items" /\ Delivered) => result = Ok(input.items)

\* two items, the second with empty content
C9_Witness ==
    /\ BulkDone /\ input.kind = "items" /\ Delivered
    /\ Len(input.items) = 2
    /\ input.items[2].content = <<>>
    /\ input.items[1].content # <<>>
    /\ Len(input.items[1].mime_type) + Len(input.items[2].mime_type) = 2
    /\ result.tag = "Ok"

(***************************************************************************)
(* C10: with a non-empty candidate label and a stream that can be read to  *)
(* its end, receive_data_oneshot returns one item: the candidates without  *)
(* the empty ones, order and duplicates kept, and every byte of the stream *)
(* from the start position to its end.                                     *)
(***************************************************************************)
RECURSIVE DropEmpty(_)
DropEmpty(labels) ==
    IF labels = <<>> THEN <<>>
    ELSE IF Head(labels) = <<>> THEN DropEmpty(Tail(labels))
    ELSE <<Head(labels)>> \o DropEmpty(Tail(labels))

SomeLabel == \E i \in 1..Len(mime_types) : mime_types[i] # <<>>

\* The stream cannot be read to its end: the reader reports an error, other
\* than Interrupted, at or after the start position.
ReadToEndFails ==
    /\ fault.kind \notin {"none", "Interrupted"}
    /\ fault.at >= input.start /\ fault.at <= Len(stream)

C10_OneshotItem ==
    (OneshotDone /\ SomeLabel /\ ~ReadToEndFails) =>
        result = Ok(<< SourceDataItem(DropEmpty(mime_types),
                                      SubSeq(stream, input.start + 1, Len(stream))) >>)

\* an empty candidate between a repeated label, and an empty stream whose
\* read was interrupted and repeated
C10_Witness ==
    /\ OneshotDone
    /\ fault = [at |-> 0, kind |-> "Interrupted"]
    /\ Len(mime_types) = 3
    /\ mime_types[2] = <<>>
    /\ mime_types[1] # <<>> /\ mime_types[1] = mime_types[3]
    /\ stream = <<>>
    /\ result.tag = "Ok"
    /\ Len(result.value) = 1
    /\ result.value[1].content = <<>>

(***************************************************************************)
(* C11: receive_data_oneshot returns no item when no candidate is          *)
(* non-empty, be every candidate the empty string or the list empty.       *)
(***************************************************************************)
\* C11 as claimed: it fails with the no-valid-mime-type error whenever no
\* candidate is non-empty.
C11_EmptyCandidatesFail ==
    (OneshotDone /\ ~SomeLabel) =>
        result = Err("All given mime_types are empty", <<>>, "none")

\* C11 as amended: it fails with the no-valid-mime-type error when the
\* stream was read to its end; when the read of the stream fails, the call
\* fails with that read error, before the candidates are looked at.
C11_OneshotNeedsLabel ==
    (OneshotDone /\ ~SomeLabel) =>
        /\ filtered = <<>>
        /\ IF ReadToEndFails
           THEN result = Err("Failed to read content", <<>>, fault.kind)
           ELSE result = Err("All given mime_types are empty", <<>>, "none")

\* two candidates, both empty, and a stream that is not empty
C11_Witness ==
    /\ OneshotDone
    /\ mime_types = << <<>>, <<>> >>
    /\ content # <<>>
    /\ result = Err("All given mime_types are empty", <<>>, "none")

(***************************************************************************)
(* C12: the stream that is exactly the valid header decodes to the empty   *)
(* list (the reader reporting no error); the empty stream does not, it     *)
(* fails reading the magic.                                                *)
(***************************************************************************)
C12_HeaderOnly ==
    BulkDone =>
        /\ (stream = ValidHeader /\ Delivered) => result = Ok(<<>>)
        /\ stream = <<>> =>
              /\ result.tag = "Err"
              /\ result.msg = "Failed to read magic header"
              /\ Delivered => result.cause = "UnexpectedEof"

\* the header only; a read of the header was interrupted and repeated
C12_Witness ==
    /\ BulkDone
    /\ fault.kind = "Interrupted" /\ Delivered
    /\ stream = ValidHeader
    /\ pos = Len(ValidHeader)
    /\ result.tag = "Ok"

(***************************************************************************)
(* C13: every item has a mime type or more: at every moment every item of  *)
(* ret, and every item of a returned list of either decoder.               *)
(***************************************************************************)
AllLabelled(items) == \A i \in 1..Len(items) : Len(items[i].mime_type) >= 1

C13_ItemsHaveLabels ==
    /\ AllLabelled(ret)
    /\ result.tag = "Ok" => AllLabelled(result.value)

\* an item was built, then a 'C' section came without a label
C13_Witness ==
    /\ BulkDone
    /\ input.header = ValidHeader
    /\ Len(input.sections) = 4
    /\ input.sections[3].tag = TagC /\ input.sections[4].tag = TagC
    /\ Len(ret) = 1
    /\ AllLabelled(ret)

(***************************************************************************)
(* C14: type_list is empty right after an item is appended to ret, the     *)
(* item holding the labels that were pending, so no label gets into two    *)
(* items; and of two 'C' sections with no 'M' section between them the     *)
(* second fails with the content-without-mime-type error (its tag and the  *)
(* bytes before it handed over by the reader).                             *)
(***************************************************************************)
\* A step that appends an item takes every pending label and leaves none.
AppendTakesLabels ==
    Len(ret') = Len(ret) + 1 =>
        /\ type_list # <<>>
        /\ ret'[Len(ret')].mime_type = type_list
        /\ SubSeq(ret', 1, Len(ret)) = ret
        /\ type_list' = <<>>

\* Sections k - 1 and k are 'C' sections and the sections before k are
\* well-formed.
TwoContents(inp, k) ==
    /\ inp.header = ValidHeader
    /\ k >= 2 /\ k <= Len(inp.sections)
    /\ inp.sections[k - 1].tag = TagC /\ inp.sections[k].tag = TagC
    /\ WellFormed(SubSeq(inp.sections, 1, k - 1))

SecondContentFails ==
    BulkDone =>
        \A k \in 1..Len(input.sections) :
            (/\ TwoContents(input, k)
             /\ ~Surfaces(input.sections, SectionEnd(input.sections, k - 1) + 1)) =>
                /\ result = Err("Failed to read content with empty mime type",
                                <<>>, "none")
                /\ Len(ret) = Cardinality(CIndexes(SubSeq(input.sections, 1, k - 1)))

C14_PendingResetPerItem ==
    /\ [][AppendTakesLabels]_vars
    /\ []SecondContentFails

\* two labels, an item, then a second 'C' section at once
C14_Witness ==
    /\ BulkDone
    /\ TwoContents(input, 4)
    /\ Len(ret) = 1 /\ Len(ret[1].mime_type) = 2
    /\ type_list = <<>>
    /\ result.tag = "Err"

(***************************************************************************)
(* C15: read_mime_types and read_content take the four length bytes        *)
(* b0 b1 b2 b3 as L = b0*2^24 + b1*2^16 + b2*2^8 + b3, consume exactly L   *)
(* payload bytes, return them in order and leave the reader right after    *)
(* the payload; with L = 0 they consume no payload byte and return the     *)
(* empty block.  A read that is interrupted is repeated and changes        *)
(* nothing; the statement is about blocks the reader hands over.           *)
(***************************************************************************)
BigEndian(b) == b[1] * (2^24) + b[2] * (2^16) + b[3] * (2^8) + b[4]

\* A step of the 'M' or the 'C' arm that calls its reader with the four
\* length bytes in the stream.
ReadsBlock ==
    /\ mode = "bulk" /\ pc = "match"
    /\ flag = TagM \/ (flag = TagC /\ type_list # <<>>)
    /\ pos + 4 <= Len(stream)

\* The reader reports an error, other than Interrupted, in the n bytes
\* after the position.
ReadBreaks(n) ==
    /\ fault.kind \notin {"none", "Interrupted"}
    /\ fault.at >= pos /\ fault.at < pos + n /\ fault.at <= Len(stream)

BlockRead ==
    ReadsBlock =>
        LET L == BigEndian(SubSeq(stream, pos + 1, pos + 4))
            payload == SubSeq(stream, pos + 5, pos + 4 + L)
        IN  IF ReadBreaks(4 + L)
            THEN result'.tag = "Err" /\ result'.cause = fault.kind
            ELSE IF pos + 4 + L > Len(stream)
            THEN result'.tag = "Err" /\ result'.cause = "UnexpectedEof"
            ELSE IF flag = TagM /\ ~from_utf8(payload)
            THEN result'.tag = "Err" /\ pos' = pos + 4 + L
            ELSE /\ pos' = pos + 4 + L
                 /\ Len(payload) = L
                 /\ flag = TagM => type_list' = Append(type_list, payload)
                 /\ flag = TagC =>
                       ret' = Append(ret, SourceDataItem(type_list, payload))

C15_LengthPrefixedBlock == [][BlockRead]_vars

\* a content block with length bytes 00 00 01 00 was read: 256 bytes
C15_Witness ==
    /\ mode = "bulk" /\ pc = "loop" /\ flag = TagC
    /\ Len(ret) = 1
    /\ Len(ret[1].content) = BigLen
    /\ SubSeq(stream, pos - BigLen - 3, pos - BigLen) = <<0, 0, 1, 0>>
    /\ pos = Len(stream)

(***************************************************************************)
(* C16: the decoders read forward only: the position of the reader never   *)
(* decreases and a byte handed out is the one at the position passed (no   *)
(* seek, no peek); and receive_data_bulk returns success only after the    *)
(* read of a flag found the end of the stream, every byte consumed.        *)
(***************************************************************************)
ForwardStep ==
    /\ pos' >= pos /\ pos' <= Len(stream)
    /\ stream' = stream
    /\ (pc = "loop" /\ pc' = "match") => (pos' = pos + 1 /\ flag' = stream[pos'])
    /\ pc = "read_to_end" => content' = SubSeq(stream, pos + 1, pos')
    /\ (mode = "bulk" /\ result'.tag = "Ok") =>
          (pc \in {"break", "done"} /\ pos = Len(stream) /\ pos' = pos)

SuccessAtEnd ==
    /\ (mode = "bulk" /\ pc = "break") => pos = Len(stream)
    /\ (BulkDone /\ result.tag = "Ok") => pos = Len(stream)

C16_ForwardOnly == [][ForwardStep]_vars /\ []SuccessAtEnd

\* two items were returned and the reader is at the end of the stream
C16_Witness ==
    /\ BulkDone
    /\ result.tag = "Ok"
    /\ Len(result.value) = 2
    /\ pos = Len(stream)
    /\ stream[pos] = 77

(***************************************************************************)
(* C17: receive_data_bulk terminates on every stream: every round of the   *)
(* section loop ends the loop (at the end of the stream, or with the error *)
(* of the reader) or consumes the flag byte, so the rounds started are at  *)
(* most the bytes after the header plus one.                               *)
(***************************************************************************)
RECURSIVE LabelCount(_)
LabelCount(items) ==
    IF items = <<>> THEN 0
    ELSE Len(Head(items).mime_type) + LabelCount(Tail(items))

\* The rounds of the loop that ran to their end: one per label and per item.
RoundsCompleted == Len(type_list) + LabelCount(ret) + Len(ret)

RoundsStarted == RoundsCompleted + (IF pc \in {"match", "break"} THEN 1 ELSE 0)

RoundConsumes ==
    (mode = "bulk" /\ pc = "loop") =>
        \/ pc' = "break" /\ pos' = pos /\ pos = Len(stream)
        \/ pc' = "done" /\ pos' = pos /\ fault.at = pos /\ result'.tag = "Err"
        \/ pc' = "match" /\ pos' = pos + 1

RoundsBounded ==
    (mode = "bulk" /\ pc \in {"loop", "match", "break"}) =>
        /\ RoundsStarted <= (pos - Len(ValidHeader)) + (IF pc = "break" THEN 1 ELSE 0)
        /\ RoundsStarted <= (Len(stream) - Len(ValidHeader)) + 1

C17_Terminates ==
    /\ <>(pc = "done")
    /\ [][RoundConsumes]_vars
    /\ []RoundsBounded

\* the call returned after five rounds, the last one finding the end
C17_Witness ==
    /\ BulkDone
    /\ RoundsCompleted = 4
    /\ result.tag = "Ok"
    /\ pos = Len(stream)
    /\ Len(stream) = Len(ValidHeader) + 4 * 5

(***************************************************************************)
(* C18: payload bytes are opaque to the framing: the number of items and   *)
(* the labels of each item are those of the stream (handed over by a       *)
(* reader that reports no error) with every byte of                        *)
(* every 'C' payload replaced by zero, so two valid streams that differ in *)
(* bytes of 'C' payloads only decode to lists that differ in content only, *)
(* whether or not a payload byte equals 'M' or 'C'.                        *)
(***************************************************************************)
MaskContent(secs) ==
    [k \in 1..Len(secs) |->
        IF secs[k].tag = TagC
        THEN Section(TagC, [i \in 1..Len(secs[k].payload) |-> 0])
        ELSE secs[k]]

C18_PayloadOpaque ==
    (BulkDone /\ ValidStream /\ Delivered) =>
        LET shape == ExpectedItems(MaskContent(input.sections))
        IN  /\ result.tag = "Ok"
            /\ Len(result.value) = Len(shape)
            /\ \A i \in 1..Len(shape) :
                  /\ result.value[i].mime_type = shape[i].mime_type
                  /\ Len(result.value[i].content) = Len(shape[i].content)

\* the first content is the byte 'M', the label after it is the byte 'C'
C18_Witness ==
    /\ BulkDone /\ ValidStream /\ Delivered
    /\ Len(input.sections) = 4
    /\ input.sections[2] = Section(TagC, <<TagM>>)
    /\ input.sections[3] = Section(TagM, <<TagC>>)
    /\ input.sections[4].tag = TagC
    /\ result.tag = "Ok"
    /\ Len(result.value) = 2
    /\ result.value[1].content = <<TagM>>

(***************************************************************************)
(* C19: receive_data_bulk keeps empty labels: an 'M' section of length 0   *)
(* adds the empty string to the pending labels, it counts as a label for   *)
(* the 'C' section that follows, and the item of that section holds the    *)
(* empty string at the place of the 'M' section (the reader reporting no   *)
(* error).                                                                 *)
(***************************************************************************)
EmptyLabelAt(secs, k) == secs[k] = Section(TagM, <<>>)

\* The number of the item that takes the label of section k, 0 if no 'C'
\* section follows.
ItemOf(secs, k) ==
    IF \E j \in CIndexes(secs) : j > k
    THEN Cardinality({j \in CIndexes(secs) : j < k}) + 1
    ELSE 0

C19_EmptyLabelKept ==
    (BulkDone /\ ValidStream /\ Delivered) =>
        \A k \in 1..Len(input.sections) :
            (EmptyLabelAt(input.sections, k) /\ ItemOf(input.sections, k) > 0) =>
                /\ result.tag = "Ok"
                /\ Len(result.value) >= ItemOf(input.sections, k)
                /\ LET labels == result.value[ItemOf(input.sections, k)].mime_type
                       n == k - PrevC(input.sections, k)
                   IN  Len(labels) >= n /\ labels[n] = <<>>

\* the empty label is the only label of the item; the read of its length
\* was interrupted and repeated
C19_Witness ==
    /\ BulkDone
    /\ fault = [at |-> 7, kind |-> "Interrupted"]
    /\ input.kind = "sections"
    /\ input.header = ValidHeader /\ input.tail = <<>>
    /\ input.sections = <<Section(TagM, <<>>), Section(TagC, <<TagM>>)>>
    /\ result = Ok(<< SourceDataItem(<< <<>> >>, <<TagM>>) >>)

====
